---- MODULE Spec2Model ----
(***************************************************************************)
(* ESPKenisisManager (src/core/manager.py): the serial connection          *)
(* lifecycle, the reader thread with its line framing and dispatch, the    *)
(* ROS spin thread, the subscription table and the channel-override        *)
(* callback, as a state machine.  Threads interleave at the granularity of *)
(* the reads and writes of the manager's shared fields.                    *)
(***************************************************************************)
EXTENDS Integers, Sequences, FiniteSets, TLC

\* ------------------------------------------------------------------ bounds
\* connect() calls that open a port; each starts one reader thread
MaxConnects == 2
\* symbols one serial read may deliver
MaxChunk == 3
\* symbols the reader may carry over in its buffer between reads
MaxBuf == 2
\* longest channel list a bus message carries
MaxChannels == 17
\* target ids the bus may address
MaxTargetId == 1
MaxSubId == 3          \* target ids of the subscription reconciliation
MaxReg == 3            \* registry entries of the subscription reconciliation

\* --------------------------------------------------------- program constants
\* manager.py:198  if len(channels) > 16
HardCap == 16
\* manager.py:203  if len(channels) > 4
SafeCap == 4

None == 0

VARIABLES
    \* ---- fields of ESPKenisisManager
    serial,              \* __serial: None or the Serial object (its number)
    is_connected,        \* __is_connected
    read_serial_thread,  \* __read_serial_thread: None or the thread (its number)
    targets,             \* __targets: list of Target
    ros_node,            \* __ros_node: None or the node (its number)
    ros_thread,          \* __ros_thread: None or the thread (its number)
    ros_subs,            \* __ros_subs: target id -> subscription object
    is_ros_running,      \* __is_ros_running
    \* ---- the libraries' state
    openPorts,           \* Serial objects that are open
    nSerial,             \* Serial objects created so far
    rclpy_ok,            \* rclpy.ok(): the context is initialised
    liveNodes,           \* nodes created and not destroyed
    nNodes,              \* nodes created so far
    nSubs,               \* subscription objects created so far
    subCalls,            \* what the last __update_ros_subs asked of the node
    wire,                \* a line the device sends, and how many of its bytes the port delivered
    \* ---- threads
    cpc,                 \* the caller (UI thread): where it is in disconnect()
    rpc,                 \* reader thread i: where it is in __read_serial
    buffer,              \* reader thread i: its local buffer
    spc,                 \* spin thread j: where it is in __ros_spin / the callback
    ovl,                 \* spin thread j: locals of the running override callback
    \* ---- observations
    calls,               \* the caller's last two completed calls, newest last
    downBy,              \* the reader thread that last ran line 101 since the last connect()
    lastRead,            \* the last serial read: thread, port
    dispatched,          \* objects the reader's current pass handed to __process_data
    cbLog,               \* snapshots the reader's current pass handed to the UI callback
    readFailed           \* reader threads whose last pass ended in the handler of line 99

mgrVars == <<serial, is_connected, read_serial_thread, targets, ros_node,
             ros_thread, ros_subs, is_ros_running>>
libVars == <<openPorts, nSerial, rclpy_ok, liveNodes, nNodes, nSubs,
             subCalls, wire>>
thrVars == <<cpc, rpc, buffer, spc, ovl>>
obsVars == <<calls, downBy, lastRead, dispatched, cbLog, readFailed>>
vars == <<mgrVars, libVars, thrVars, obsVars>>

Threads == 1..MaxConnects

\* ------------------------------------------------------------ wire format
\* The serial stream is a sequence of symbols.  "NL" is the newline, "SP"
\* white space; the others are the pieces JSON texts are made of:
\*   "X"  text that is not JSON           "N"  a JSON number
\*   "O"  {}                              "U"  {"type": "other"}
\*   "H"  {"type": "targets_update"}      "T"  {"type": "targets_update",
\*   "r1" "r2"  a complete Target record        "targets": [ ...records ]}
\*   "b1" a Target record without "mac"
Alphabet == {"NL", "SP", "X", "N", "O", "H", "T", "r1", "r2", "b1"}
RecordSymbols == {"r1", "r2", "b1", "ru"}

\* The bytes of a target record whose name has a two-byte UTF-8 character:
\* "ua" is the record up to and with the character's first byte, "ub" the
\* second byte and the rest of the record; decoded together they are "ru".
ByteAlphabet == Alphabet \cup {"ua", "ub"}

\* bytes.decode() (UTF-8, strict) of one read.  ASCII bytes are their own
\* characters.  With the bytes of the two-byte character: UnicodeDecodeError
\* when its first byte is not followed by its second (the read ends inside
\* the character) or the second comes without the first; otherwise the two
\* bytes become the one character.
NotSecondByte(b) == b # "ub"

decode(bytes) ==
    IF \A k \in 1..Len(bytes) : bytes[k] \in Alphabet
    THEN [ok |-> TRUE, text |-> bytes]
    ELSE LET n == Len(bytes)
             ok == \A k \in 1..n :
                      /\ bytes[k] = "ua" => (k < n /\ bytes[k + 1] = "ub")
                      /\ bytes[k] = "ub" => (k > 1 /\ bytes[k - 1] = "ua")
             firsts == SelectSeq(bytes, NotSecondByte)
         IN [ok |-> ok,
             text |-> IF ok
                      THEN [k \in 1..Len(firsts) |->
                               IF firsts[k] = "ua" THEN "ru" ELSE firsts[k]]
                      ELSE <<>>]

\* no line under way on the port
NoWire == [line |-> <<>>, pos |-> 0]

\* target.py: the dataclass fields, as Target.get_fields() lists them
TargetFields ==
    {"id", "name", "mac", "channels", "connection_state",
     "last_successful_send", "is_channels_overridden",
     "override_timeout_remaining"}

\* the JSON object a record symbol stands for (every value abstracted to the id)
RecordOf(sym) ==
    CASE sym = "r1" -> [f \in TargetFields |-> 1]
      [] sym = "r2" -> [f \in TargetFields |-> 2]
      [] sym = "b1" -> [f \in TargetFields \ {"mac"} |-> 1]
      [] sym = "ru" -> [f \in TargetFields |-> 1]

RECURSIVE MapRecords(_)
MapRecords(syms) ==
    IF syms = <<>> THEN <<>>
    ELSE <<RecordOf(Head(syms))>> \o MapRecords(Tail(syms))

IsSP(c) == c = "SP"
NotSP(c) == c # "SP"

\* json.loads(line): JSON ignores white space between its tokens
JsonLoads(line) ==
    LET text == SelectSeq(line, NotSP) IN
    IF text = <<"N">> THEN [kind |-> "scalar"]
    ELSE IF text = <<"O">> THEN [kind |-> "dict", d |-> <<>>]
    ELSE IF text = <<"U">> THEN [kind |-> "dict", d |-> [type |-> "other"]]
    ELSE IF text = <<"H">> THEN [kind |-> "dict", d |-> [type |-> "targets_update"]]
    ELSE IF /\ Len(text) >= 1
            /\ text[1] = "T"
            /\ \A i \in 2..Len(text) : text[i] \in RecordSymbols
         THEN [kind |-> "dict",
               d |-> [type |-> "targets_update", targets |-> MapRecords(Tail(text))]]
    ELSE [kind |-> "error"]

\* str.split("\n")
RECURSIVE Split(_)
Split(s) ==
    IF \A i \in 1..Len(s) : s[i] # "NL" THEN <<s>>
    ELSE LET k == CHOOSE i \in 1..Len(s) :
                      s[i] = "NL" /\ \A j \in 1..(i - 1) : s[j] # "NL"
         IN <<SubSeq(s, 1, k - 1)>> \o Split(SubSeq(s, k + 1, Len(s)))

\* str.strip()
RECURSIVE Strip(_)
Strip(s) ==
    IF s = <<>> THEN s
    ELSE IF IsSP(Head(s)) THEN Strip(Tail(s))
    ELSE IF IsSP(s[Len(s)]) THEN Strip(SubSeq(s, 1, Len(s) - 1))
    ELSE s

\* list.pop() of the split: the lines, and the segment kept as the buffer
Lines(s) == SubSeq(Split(s), 1, Len(Split(s)) - 1)
Rest(s) == Split(s)[Len(Split(s))]

\* ------------------------------------------------- dispatch and the registry
\* The result of a handler: the registry after it, the snapshots it handed to
\* the UI callback, and whether it raised.
Outcome(reg, cb, raised) == [targets |-> reg, cb |-> cb, raised |-> raised]

\* the validation looking at the first record only
handle_targets_update_first(data, reg) ==
    IF "targets" \notin DOMAIN data THEN Outcome(reg, <<>>, FALSE)
    ELSE IF data.targets # <<>> /\ ~(TargetFields \subseteq DOMAIN data.targets[1])
         THEN Outcome(reg, <<>>, FALSE)
    ELSE Outcome(reg, <<data.targets>>, FALSE)

\* __handle_targets_update
handle_targets_update(data, reg) ==
    IF "targets" \notin DOMAIN data THEN Outcome(reg, <<>>, FALSE)
    ELSE IF \E i \in 1..Len(data.targets) :
                ~(TargetFields \subseteq DOMAIN data.targets[i])
         THEN Outcome(reg, <<>>, FALSE)
    ELSE Outcome(reg, <<data.targets>>, FALSE)

\* __data_handlers, filled in __init__
DataHandlers == {"targets_update"}

\* __process_data: `"type" not in data` raises TypeError on a JSON number
process_data(v, reg) ==
    IF v.kind = "scalar" THEN Outcome(reg, <<>>, TRUE)
    ELSE IF "type" \notin DOMAIN v.d THEN Outcome(reg, <<>>, FALSE)
    ELSE IF v.d.type \in DataHandlers THEN handle_targets_update(v.d, reg)
    ELSE Outcome(reg, <<>>, FALSE)

\* The for loop of __read_serial over the split lines: the accumulated result
\* of the lines before, then this line's.  An exception leaves the loop.
RECURSIVE ProcessLines(_, _)
ProcessLines(lines, acc) ==
    IF lines = <<>> \/ acc.raised THEN acc
    ELSE LET line == Strip(Head(lines))
             v == JsonLoads(line)
         IN IF line = <<>> \/ v.kind = "error"
            THEN ProcessLines(Tail(lines), acc)
            ELSE LET o == process_data(v, acc.targets)
                 IN ProcessLines(Tail(lines),
                        [targets |-> o.targets,
                         cb |-> acc.cb \o o.cb,
                         disp |-> Append(acc.disp, v),
                         raised |-> o.raised])

\* ---------------------------------------------------------- subscriptions
NoSubs == [t \in {} |-> 0]

RegistryIds(reg) == {reg[i].id : i \in 1..Len(reg)}

\* the topic of line 181, f"espkenisis/{target.id}/channel_override"
Topic(id) == <<"espkenisis", id, "channel_override">>

\* no destroy_subscription and no create_subscription call
NoCalls == [destroyed |-> {}, created |-> {}]

\* variant: the first loop destroys and deletes every entry of the table
DestroySubsAll(reg, subs) ==
    [subs |-> NoSubs, destroyed |-> {subs[t] : t \in DOMAIN subs}]

\* the first loop of __update_ros_subs (lines 170-174): every table entry
\* whose id no registry entry has is destroyed on the node and deleted
DestroySubs(reg, subs) ==
    LET gone == DOMAIN subs \ RegistryIds(reg)
    IN [subs |-> [t \in DOMAIN subs \ gone |-> subs[t]],
        destroyed |-> {subs[t] : t \in gone}]

\* the second loop of __update_ros_subs: one new subscription object for each
\* registry entry whose id is not in the table yet, in registry order
RECURSIVE CreateSubs(_, _, _, _)
CreateSubs(reg, subs, n, created) ==
    IF reg = <<>> THEN [subs |-> subs, n |-> n, created |-> created]
    ELSE IF Head(reg).id \in DOMAIN subs
    THEN CreateSubs(Tail(reg), subs, n, created)
    ELSE LET sub == [obj |-> n + 1, topic |-> Topic(Head(reg).id)]
         IN CreateSubs(Tail(reg),
                       [t \in DOMAIN subs \cup {Head(reg).id} |->
                           IF t = Head(reg).id THEN sub ELSE subs[t]],
                       n + 1,
                       created \cup {sub})

\* __update_ros_subs: the table, the number of subscription objects and the
\* calls made on the node
update_ros_subs(reg, subs, n, running, node) ==
    IF ~running /\ node # None
    THEN [subs |-> subs, n |-> n, calls |-> NoCalls]
    ELSE LET d == DestroySubs(reg, subs)
             c == CreateSubs(reg, d.subs, n, {})
         IN [subs |-> c.subs, n |-> c.n,
             calls |-> [destroyed |-> d.destroyed, created |-> c.created]]

\* -------------------------------------------------------------- the caller
Push(c) == <<calls[2], c>>

\* __start_ros, called at the end of connect(); `ros` is what the ROS library
\* does: "ok", or rclpy.init() raises ("init"), or create_node raises ("node").
\* rclpy.init() also raises when the context is already initialised.
start_ros(ros) ==
    IF ros_node # None
    THEN UNCHANGED <<ros_node, ros_thread, ros_subs, is_ros_running, rclpy_ok,
                     liveNodes, nNodes, nSubs, subCalls, wire, spc>>
    ELSE IF ros = "init" \/ rclpy_ok
    THEN UNCHANGED <<ros_node, ros_thread, ros_subs, is_ros_running, rclpy_ok,
                     liveNodes, nNodes, nSubs, subCalls, wire, spc>>
    ELSE IF ros = "node"
    THEN /\ rclpy_ok' = TRUE
         /\ UNCHANGED <<ros_node, ros_thread, ros_subs, is_ros_running,
                        liveNodes, nNodes, nSubs, subCalls, wire, spc>>
    ELSE LET j == nNodes + 1
             u == update_ros_subs(targets, ros_subs, nSubs, TRUE, j)
         IN /\ rclpy_ok' = TRUE
            /\ ros_node' = j
            /\ liveNodes' = liveNodes \cup {j}
            /\ nNodes' = j
            /\ is_ros_running' = TRUE
            /\ ros_thread' = j
            /\ spc' = [spc EXCEPT ![j] = "loop"]
            /\ ros_subs' = u.subs
            /\ nSubs' = u.n
            /\ subCalls' = u.calls

\* connect(): `opened` is whether serial.Serial(port, ...) opens the port
connect(opened, ros) ==
    /\ cpc = "idle"
    /\ nSerial < MaxConnects
    /\ IF ~opened
       THEN /\ calls' = Push("connect_fail")
            /\ UNCHANGED <<mgrVars, libVars, thrVars, downBy>>
       ELSE LET i == nSerial + 1
            IN /\ serial' = i
               /\ nSerial' = i
               /\ openPorts' = openPorts \cup {i}
               /\ is_connected' = TRUE
               /\ read_serial_thread' = i
               /\ rpc' = [rpc EXCEPT ![i] = "start"]
               /\ start_ros(ros)
               /\ calls' = Push("connect_ok")
               /\ downBy' = None
               /\ UNCHANGED <<targets, wire, cpc, buffer, ovl>>
    /\ UNCHANGED <<lastRead, dispatched, cbLog, readFailed>>

\* connect() with Thread.start() raising at line 50 (RuntimeError: can't
\* start new thread) after the port opened: lines 44-47 have run, the except
\* clause at line 57 returns False, __start_ros is not reached
connect_start_raises ==
    /\ cpc = "idle"
    /\ nSerial < MaxConnects
    /\ LET i == nSerial + 1
       IN /\ serial' = i
          /\ nSerial' = i
          /\ openPorts' = openPorts \cup {i}
          /\ is_connected' = TRUE
          /\ read_serial_thread' = i
    /\ calls' = Push("connect_fail")
    /\ UNCHANGED <<targets, ros_node, ros_thread, ros_subs, is_ros_running,
                   rclpy_ok, liveNodes, nNodes, nSubs, subCalls, wire, thrVars,
                   downBy, lastRead, dispatched, cbLog, readFailed>>

\* disconnect(), line 62: the call starts; with a reader thread it goes on to
\* join it
disconnect_begin ==
    /\ cpc = "idle"
    /\ cpc' = IF read_serial_thread # None THEN "join_reader" ELSE "close"
    /\ UNCHANGED <<mgrVars, libVars, rpc, buffer, spc, ovl, obsVars>>

\* line 63 on a thread object that was never started: join raises
\* RuntimeError and disconnect() ends there
join_reader_raises ==
    /\ cpc = "join_reader"
    /\ rpc[read_serial_thread] = "none"
    /\ cpc' = "idle"
    /\ calls' = Push("disconnect_raised")
    /\ UNCHANGED <<mgrVars, libVars, rpc, buffer, spc, ovl,
                   downBy, lastRead, dispatched, cbLog, readFailed>>

\* line 63: join(timeout=1.0) returns, the thread ended or not
join_reader_end ==
    /\ cpc = "join_reader"
    /\ rpc[read_serial_thread] # "none"
    /\ cpc' = "close"
    /\ UNCHANGED <<mgrVars, libVars, rpc, buffer, spc, ovl, obsVars>>

\* lines 64-69 without line 65: the port is dropped but never closed
disconnect_close_unclosed ==
    /\ cpc = "close"
    /\ serial' = None
    /\ is_connected' = FALSE
    /\ read_serial_thread' = None
    /\ cpc' = IF ros_thread # None THEN "join_ros" ELSE "stop_ros"
    /\ UNCHANGED <<targets, ros_node, ros_thread, ros_subs, is_ros_running,
                   libVars, rpc, buffer, spc, ovl, obsVars>>

\* lines 64-69, then line 150 of __stop_ros
disconnect_close ==
    /\ cpc = "close"
    /\ openPorts' = openPorts \ {serial}
    /\ serial' = None
    /\ is_connected' = FALSE
    /\ read_serial_thread' = None
    /\ cpc' = IF ros_thread # None THEN "join_ros" ELSE "stop_ros"
    /\ UNCHANGED <<targets, ros_node, ros_thread, ros_subs, is_ros_running,
                   nSerial, rclpy_ok, liveNodes, nNodes, nSubs, subCalls, wire,
                   rpc, buffer, spc, ovl, obsVars>>

\* line 151: join(timeout=1.0) of the spin thread returns
join_ros_end ==
    /\ cpc = "join_ros"
    /\ cpc' = "stop_ros"
    /\ UNCHANGED <<mgrVars, libVars, rpc, buffer, spc, ovl, obsVars>>

\* variant: lines 153-154 without the test of line 152; destroy_node on None
\* raises and disconnect() ends there
stop_ros_unguarded ==
    /\ cpc = "stop_ros"
    /\ liveNodes' = liveNodes \ {ros_node}
    /\ rclpy_ok' = IF ros_node # None THEN FALSE ELSE rclpy_ok
    /\ ros_node' = None
    /\ ros_thread' = IF ros_node # None THEN None ELSE ros_thread
    /\ is_ros_running' = IF ros_node # None THEN FALSE ELSE is_ros_running
    /\ cpc' = "idle"
    /\ calls' = Push(IF ros_node # None THEN "disconnect" ELSE "disconnect_raised")
    /\ UNCHANGED <<serial, is_connected, read_serial_thread, targets, ros_subs,
                   openPorts, nSerial, nNodes, nSubs, subCalls, wire, rpc, buffer, spc, ovl,
                   downBy, lastRead, dispatched, cbLog, readFailed>>

\* lines 152-159 of __stop_ros; disconnect() returns
stop_ros ==
    /\ cpc = "stop_ros"
    /\ liveNodes' = liveNodes \ {ros_node}
    /\ rclpy_ok' = IF ros_node # None THEN FALSE ELSE rclpy_ok
    /\ ros_node' = None
    /\ ros_thread' = None
    /\ is_ros_running' = FALSE
    /\ cpc' = "idle"
    /\ calls' = Push("disconnect")
    /\ UNCHANGED <<serial, is_connected, read_serial_thread, targets, ros_subs,
                   openPorts, nSerial, nNodes, nSubs, subCalls, wire, rpc, buffer, spc, ovl,
                   downBy, lastRead, dispatched, cbLog, readFailed>>

\* ------------------------------------------------------- the reader thread
\* __read_serial, lines 75-79
reader_start(i) ==
    /\ rpc[i] = "start"
    /\ rpc' = [rpc EXCEPT ![i] = IF serial = None THEN "done" ELSE "loop"]
    /\ UNCHANGED <<mgrVars, libVars, cpc, buffer, spc, ovl, obsVars>>

\* line 80: while self.__is_connected; a new pass of the loop begins
reader_loop(i) ==
    /\ rpc[i] = "loop"
    /\ rpc' = [rpc EXCEPT ![i] = IF is_connected THEN "body" ELSE "done"]
    /\ buffer' = [buffer EXCEPT ![i] = IF is_connected THEN @ ELSE <<>>]
    /\ dispatched' = <<>>
    /\ cbLog' = <<>>
    /\ readFailed' = readFailed \ {i}
    /\ UNCHANGED <<mgrVars, libVars, cpc, spc, ovl, calls, downBy, lastRead>>

\* lines 82-98 with self.__serial None or closed: in_waiting raises
reader_no_port(i) ==
    /\ rpc[i] = "body"
    /\ serial = None \/ serial \notin openPorts
    /\ rpc' = [rpc EXCEPT ![i] = "except"]
    /\ UNCHANGED <<mgrVars, libVars, cpc, buffer, spc, ovl, obsVars>>

\* lines 82-83 on an open port: the transport fails
reader_fault(i) ==
    /\ rpc[i] = "body"
    /\ serial # None /\ serial \in openPorts
    /\ rpc' = [rpc EXCEPT ![i] = "except"]
    /\ UNCHANGED <<mgrVars, libVars, cpc, buffer, spc, ovl, obsVars>>

\* line 82 on an open port: in_waiting is 0
reader_idle(i) ==
    /\ rpc[i] = "body"
    /\ serial # None /\ serial \in openPorts
    /\ rpc' = [rpc EXCEPT ![i] = "loop"]
    /\ lastRead' = [thread |-> i, port |-> serial]
    /\ UNCHANGED <<mgrVars, libVars, cpc, buffer, spc, ovl,
                   calls, downBy, dispatched, cbLog, readFailed>>

\* lines 82-98 on an open port that delivers the bytes `chunk`
read_chunk(i, chunk) ==
    /\ rpc[i] = "body"
    /\ serial # None /\ serial \in openPorts
    /\ LET new_data == decode(chunk)
           data == buffer[i] \o new_data.text
           r == ProcessLines(Lines(data),
                    [targets |-> targets, cb |-> <<>>, disp |-> <<>>,
                     raised |-> FALSE])
       IN IF ~new_data.ok
          THEN /\ rpc' = [rpc EXCEPT ![i] = "except"]
               /\ UNCHANGED <<buffer, targets, dispatched, cbLog>>
          ELSE /\ Len(Rest(data)) <= MaxBuf
               /\ buffer' = [buffer EXCEPT ![i] = Rest(data)]
               /\ targets' = r.targets
               /\ dispatched' = r.disp
               /\ cbLog' = r.cb
               /\ rpc' = [rpc EXCEPT ![i] = IF r.raised THEN "except" ELSE "loop"]
    /\ lastRead' = [thread |-> i, port |-> serial]
    /\ UNCHANGED <<serial, is_connected, read_serial_thread, ros_node, ros_thread,
                   ros_subs, is_ros_running, openPorts, nSerial, rclpy_ok,
                   liveNodes, nNodes, nSubs, subCalls, cpc, spc, ovl,
                   calls, downBy, readFailed>>

\* a read of whatever the port has
reader_read(i, chunk) ==
    /\ read_chunk(i, chunk)
    /\ UNCHANGED wire

\* a read while the line `wire` is arriving: the port delivers its next k bytes
reader_take(i, k) ==
    /\ wire.pos + k <= Len(wire.line)
    /\ read_chunk(i, SubSeq(wire.line, wire.pos + 1, wire.pos + k))
    /\ wire' = [wire EXCEPT !.pos = @ + k]

\* lines 99-101
reader_except(i) ==
    /\ rpc[i] = "except"
    /\ is_connected' = FALSE
    /\ rpc' = [rpc EXCEPT ![i] = "loop"]
    /\ downBy' = i
    /\ readFailed' = readFailed \cup {i}
    /\ UNCHANGED <<serial, read_serial_thread, targets, ros_node, ros_thread,
                   ros_subs, is_ros_running, libVars, cpc, buffer, spc, ovl,
                   calls, lastRead, dispatched, cbLog>>

\* no command, no request, no callback yet
NoCmd == [type |-> "none", target_id |-> 0, channels |-> <<>>, duration |-> 0]
NoReq == [target_id |-> 0, channels |-> <<>>, duration |-> 0, bypass_safety |-> FALSE]
NoOv == [req |-> NoReq, cmd |-> NoCmd, result |-> "none", sent |-> <<>>]

\* --------------------------------------------------------- the spin thread
\* __ros_spin, line 162; spin_once(None) raises and ends the thread.  The
\* locals of the callback that ran in the pass before are gone.
ros_loop(j) ==
    /\ spc[j] = "loop"
    /\ spc' = [spc EXCEPT ![j] =
                  IF is_ros_running /\ rclpy_ok /\ ros_node # None
                  THEN "spin" ELSE "done"]
    /\ ovl' = [ovl EXCEPT ![j] = NoOv]
    /\ UNCHANGED <<mgrVars, libVars, cpc, rpc, buffer, obsVars>>

\* line 163: spin_once returns
ros_spin_return(j) ==
    /\ spc[j] = "spin"
    /\ spc' = [spc EXCEPT ![j] = "loop"]
    /\ UNCHANGED <<mgrVars, libVars, cpc, rpc, buffer, ovl, obsVars>>

\* ------------------------------------------------ the override callback
\* ChannelOverride messages: channels 1, 2, ..., n
Chan(n) == [i \in 1..n |-> i]
Durations == {100, 250}
Requests ==
    [target_id : 1..MaxTargetId,
     channels : {Chan(n) : n \in 0..MaxChannels},
     duration : Durations,
     bypass_safety : BOOLEAN]

\* the hard cap off by one: len(channels) > 17
TooManyChannelsOffByOne(channels) == Len(channels) > HardCap + 1

\* line 198: the hard cap
TooManyChannels(channels) == Len(channels) > HardCap

\* the clamp with the bypass test inverted
SafetyClampInverted(channels, bypass_safety) ==
    IF bypass_safety /\ Len(channels) > SafeCap
    THEN SubSeq(channels, 1, SafeCap)
    ELSE channels

\* the clamp keeping the last four channels, channels[-4:]
SafetyClampLast(channels, bypass_safety) ==
    IF ~bypass_safety /\ Len(channels) > SafeCap
    THEN SubSeq(channels, Len(channels) - SafeCap + 1, Len(channels))
    ELSE channels

\* lines 202-205: the safety clamp
SafetyClamp(channels, bypass_safety) ==
    IF ~bypass_safety /\ Len(channels) > SafeCap
    THEN SubSeq(channels, 1, SafeCap)
    ELSE channels

\* lines 217-222
Command(target_id, channels, duration) ==
    [type |-> "override_channels", target_id |-> target_id,
     channels |-> channels, duration |-> duration]

Finish(j, result) ==
    /\ ovl' = [ovl EXCEPT ![j].result = result]
    /\ spc' = [spc EXCEPT ![j] = "loop"]

\* __process_channel_override up to the call of __send_override_command
\* (lines 189-207), run by spin thread j inside spin_once for message `req`
ov_receive(j, req) ==
    /\ spc[j] = "spin"
    /\ IF ~is_connected
       THEN /\ ovl' = [ovl EXCEPT ![j] =
                         [req |-> req, cmd |-> NoCmd, result |-> "not_connected",
                          sent |-> <<>>]]
            /\ spc' = [spc EXCEPT ![j] = "loop"]
       ELSE IF TooManyChannels(req.channels)
       THEN /\ ovl' = [ovl EXCEPT ![j] =
                         [req |-> req, cmd |-> NoCmd, result |-> "too_many",
                          sent |-> <<>>]]
            /\ spc' = [spc EXCEPT ![j] = "loop"]
       ELSE /\ ovl' = [ovl EXCEPT ![j] =
                         [req |-> req,
                          cmd |-> Command(req.target_id,
                                          SafetyClamp(req.channels, req.bypass_safety),
                                          req.duration),
                          result |-> "running", sent |-> <<>>]]
            /\ spc' = [spc EXCEPT ![j] = "ov213"]
    /\ UNCHANGED <<mgrVars, libVars, cpc, rpc, buffer, obsVars>>

\* __send_override_command, line 213
ov_send_check(j) ==
    /\ spc[j] = "ov213"
    /\ IF ~is_connected \/ serial = None
       THEN Finish(j, "lost")
       ELSE /\ spc' = [spc EXCEPT ![j] = "ov227"]
            /\ UNCHANGED ovl
    /\ UNCHANGED <<mgrVars, libVars, cpc, rpc, buffer, obsVars>>

\* variant: a failed write marks the connection down, as a failed read does
ov_write_disconnecting(j, ok) ==
    /\ spc[j] = "ov227"
    /\ IF serial = None \/ serial \notin openPorts
       THEN Finish(j, "raised") /\ is_connected' = FALSE
       ELSE /\ ovl' = [ovl EXCEPT ![j].result = IF ok THEN "written" ELSE "write_failed",
                                  ![j].sent = Append(@, [port |-> serial,
                                                         cmd |-> ovl[j].cmd,
                                                         ok |-> ok])]
            /\ spc' = [spc EXCEPT ![j] = "loop"]
            /\ is_connected' = (is_connected /\ ok)
    /\ UNCHANGED <<serial, read_serial_thread, targets, ros_node, ros_thread,
                   ros_subs, is_ros_running, libVars, cpc, rpc, buffer, obsVars>>

\* lines 224-230: the command is handed to self.__serial.write; `ok` is whether
\* the port takes the bytes.  With self.__serial None or closed, or the write
\* failing, the exception is logged and absorbed.  `sent` lists the commands
\* the running callback handed to a port.
ov_write(j, ok) ==
    /\ spc[j] = "ov227"
    /\ IF serial = None \/ serial \notin openPorts
       THEN Finish(j, "raised")
       ELSE /\ ovl' = [ovl EXCEPT ![j].result = IF ok THEN "written" ELSE "write_failed",
                                  ![j].sent = Append(@, [port |-> serial,
                                                         cmd |-> ovl[j].cmd,
                                                         ok |-> ok])]
            /\ spc' = [spc EXCEPT ![j] = "loop"]
    /\ UNCHANGED <<mgrVars, libVars, cpc, rpc, buffer, obsVars>>

\* line 227 in two steps, the call of self.__serial.write and its return: the
\* write takes time and holds no lock.  The port is the one self.__serial
\* names when the call is made.
ov_write_begin(j) ==
    /\ spc[j] = "ov227"
    /\ IF serial = None \/ serial \notin openPorts
       THEN Finish(j, "raised")
       ELSE /\ ovl' = [ovl EXCEPT ![j].result = "writing",
                                  ![j].sent = Append(@, [port |-> serial,
                                                         cmd |-> ovl[j].cmd,
                                                         ok |-> FALSE])]
            /\ spc' = [spc EXCEPT ![j] = "writing"]
    /\ UNCHANGED <<mgrVars, libVars, cpc, rpc, buffer, obsVars>>

\* serial.write returns (`ok`) or raises; lines 228-230
ov_write_end(j, ok) ==
    /\ spc[j] = "writing"
    /\ ovl' = [ovl EXCEPT ![j].result = IF ok THEN "written" ELSE "write_failed",
                          ![j].sent[Len(ovl[j].sent)].ok = ok]
    /\ spc' = [spc EXCEPT ![j] = "loop"]
    /\ UNCHANGED <<mgrVars, libVars, cpc, rpc, buffer, obsVars>>

\* ------------------------------------------------------------ the machine

\* ESPKenisisManager.__init__, no thread running
Init ==
    /\ serial = None
    /\ is_connected = FALSE
    /\ read_serial_thread = None
    /\ targets = <<>>
    /\ ros_node = None
    /\ ros_thread = None
    /\ ros_subs = NoSubs
    /\ is_ros_running = FALSE
    /\ openPorts = {}
    /\ nSerial = 0
    /\ rclpy_ok = FALSE
    /\ liveNodes = {}
    /\ nNodes = 0
    /\ nSubs = 0
    /\ subCalls = NoCalls
    /\ wire = NoWire
    /\ cpc = "idle"
    /\ rpc = [i \in Threads |-> "none"]
    /\ buffer = [i \in Threads |-> <<>>]
    /\ spc = [j \in Threads |-> "none"]
    /\ ovl = [j \in Threads |-> NoOv]
    /\ calls = <<"none", "none">>
    /\ downBy = None
    /\ lastRead = [thread |-> 0, port |-> 0]
    /\ dispatched = <<>>
    /\ cbLog = <<>>
    /\ readFailed = {}

SeqsUpTo(S, n) == UNION {[1..k -> S] : k \in 1..n}

RosOutcomes == {"ok", "init", "node"}

Caller ==
    \/ \E opened \in BOOLEAN, ros \in RosOutcomes : connect(opened, ros)
    \/ disconnect_begin
    \/ join_reader_end
    \/ disconnect_close
    \/ join_ros_end
    \/ stop_ros

Reader(i) ==
    \/ reader_start(i)
    \/ reader_loop(i)
    \/ reader_no_port(i)
    \/ reader_fault(i)
    \/ reader_idle(i)
    \/ reader_except(i)

Spin(j) ==
    \/ ros_loop(j)
    \/ ros_spin_return(j)

\* The manager under any sequence of connect() and disconnect() calls, with
\* its threads; a read delivers one of two short lines.
LifeChunks == {<<"T", "r1", "NL">>, <<"N", "NL">>}

Next ==
    \/ Caller
    \/ \E i \in Threads : Reader(i)
    \/ \E i \in Threads, chunk \in LifeChunks : reader_read(i, chunk)
    \/ \E j \in Threads : Spin(j)

Spec == Init /\ [][Next]_vars

\* One session that is not disconnected, the reader fed every stream of up to
\* MaxChunk symbols a read.
Chunks == SeqsUpTo(Alphabet, MaxChunk)

WireNext ==
    \/ nSerial = 0 /\ connect(TRUE, "ok")
    \/ reader_start(1)
    \/ reader_loop(1)
    \/ reader_fault(1)
    \/ reader_idle(1)
    \/ reader_except(1)
    \/ \E chunk \in Chunks : reader_read(1, chunk)

SpecWire == Init /\ [][WireNext]_vars

\* Any sequence of connect() and disconnect() calls, with the thread library
\* also failing to start the reader thread; the port delivers no data.
ConnNext ==
    \/ Caller
    \/ connect_start_raises
    \/ join_reader_raises
    \/ \E i \in Threads : Reader(i)
    \/ \E j \in Threads : Spin(j)

SpecConn == Init /\ [][ConnNext]_vars

\* One session, with the bus delivering every request of Requests to the
\* override callback on the spin thread.  The callback is bound to a topic only
\* by the subscriptions __update_ros_subs creates (lines 179-184), and under
\* Spec ros_subs stays empty because __targets is never filled; here it is
\* driven as a subscription for target_id would drive it.
Override(j) ==
    \/ \E req \in Requests : ov_receive(j, req)
    \/ ov_send_check(j)
    \/ \E ok \in BOOLEAN : ov_write(j, ok)

BusNext ==
    \/ nSerial = 0 /\ connect(TRUE, "ok")
    \/ disconnect_begin
    \/ join_reader_end
    \/ disconnect_close
    \/ join_ros_end
    \/ stop_ros
    \/ Reader(1)
    \/ Spin(1)
    \/ Override(1)

SpecBus == Init /\ [][BusNext]_vars

\* ================================================================ claims
\* The callbacks that have handed a command to a port
Handed(j) == ovl[j].sent # <<>>

\* C1: every override_channels command handed to the serial port has at most
\* 16 channels, and at most 4 unless its request had bypass_safety set.
C1_ChannelsCapped ==
    \A j \in Threads : \A k \in 1..Len(ovl[j].sent) :
        LET n == Len(ovl[j].sent[k].cmd.channels) IN
        /\ ovl[j].sent[k].cmd.type = "override_channels"
        /\ n <= HardCap
        /\ n <= SafeCap \/ ovl[j].req.bypass_safety

\* C1 witness: a request of 16 channels without bypass was clamped and the
\* port took the command
C1_Witness ==
    \E j \in Threads :
        /\ Handed(j)
        /\ ovl[j].sent[1].ok
        /\ Len(ovl[j].req.channels) = HardCap
        /\ ~ovl[j].req.bypass_safety

\* the channels the claim expects on the wire for a request
FirstFourOrAll(req) ==
    IF Len(req.channels) > SafeCap /\ ~req.bypass_safety
    THEN [i \in 1..SafeCap |-> req.channels[i]]
    ELSE req.channels

\* C5: a request of at most 16 channels handled with the connection up hands
\* exactly one command to the port: the first 4 channels in order when it has
\* more than 4 and no bypass, its channels unchanged otherwise, with its
\* duration and the callback's target id; a callback that found the
\* connection down hands none.
C5_ClampedForward ==
    \A j \in Threads :
        LET o == ovl[j] IN
        /\ o.result \in {"written", "write_failed"} =>
              /\ Len(o.req.channels) <= HardCap
              /\ Len(o.sent) = 1
              /\ o.sent[1].cmd = [type |-> "override_channels",
                                  target_id |-> o.req.target_id,
                                  channels |-> FirstFourOrAll(o.req),
                                  duration |-> o.req.duration]
        /\ o.result \notin {"written", "write_failed"} => o.sent = <<>>
        /\ spc[j] \in {"ov213", "ov227"} =>
              /\ o.result = "running"
              /\ Len(o.req.channels) <= HardCap
              /\ o.cmd.channels = FirstFourOrAll(o.req)

\* C5 witness: a request of 5 channels without bypass was written
C5_Witness ==
    \E j \in Threads :
        /\ ovl[j].result = "written"
        /\ Len(ovl[j].req.channels) = SafeCap + 1
        /\ ~ovl[j].req.bypass_safety
        /\ ovl[j].sent[1].cmd.channels = <<1, 2, 3, 4>>

\* C6: the callback step that receives a request of more than 16 channels
\* ends the callback at once, for either bypass_safety, with nothing handed to
\* the port and the manager's fields and the ports as they were.
C6_OverCapDropped ==
    [][\A j \in Threads :
          (spc[j] = "spin" /\ Len(ovl'[j].req.channels) > HardCap) =>
              /\ spc'[j] = "loop"
              /\ ovl'[j].sent = <<>>
              /\ ovl'[j].result \in {"too_many", "not_connected"}
              /\ UNCHANGED <<mgrVars, openPorts>>]_vars

\* C6 witness: a request of more than 16 channels with bypass_safety set was
\* received while connected and dropped
C6_Witness ==
    \E j \in Threads :
        /\ ovl[j].result = "too_many"
        /\ ovl[j].req.bypass_safety
        /\ is_connected
        /\ spc[j] = "loop"

\* A decoded object that is a targets_update
IsUpdate(v) ==
    v.kind = "dict" /\ "type" \in DOMAIN v.d /\ v.d.type = "targets_update"

\* ... whose records all carry the eight Target fields
IsValidUpdate(v) ==
    /\ IsUpdate(v)
    /\ "targets" \in DOMAIN v.d
    /\ \A k \in 1..Len(v.d.targets) :
          \A f \in TargetFields : f \in DOMAIN v.d.targets[k]

\* ... that lacks the targets field or has a record missing a field
IsRejectedUpdate(v) == IsUpdate(v) /\ ~IsValidUpdate(v)

\* the last object of the reader's current pass
LastDispatched == dispatched[Len(dispatched)]

\* C2: after a targets_update with complete records is dispatched, the
\* registry is exactly the message's targets and the UI callback has been
\* invoked with exactly that list.
C2_RegistryReplaced ==
    (dispatched # <<>> /\ IsValidUpdate(LastDispatched)) =>
        /\ cbLog # <<>>
        /\ cbLog[Len(cbLog)] = LastDispatched.d.targets
        /\ targets = LastDispatched.d.targets

\* C3: after a valid targets_update is processed while connected, the
\* subscribed ids are exactly the ids of the message's targets.
C3_SubsFollowRegistry ==
    (dispatched # <<>> /\ IsValidUpdate(LastDispatched) /\ is_connected
        /\ is_ros_running) =>
        DOMAIN ros_subs = RegistryIds(LastDispatched.d.targets)

\* the snapshots of the valid updates among the objects, in order
RECURSIVE ValidSnapshots(_)
ValidSnapshots(objs) ==
    IF objs = <<>> THEN <<>>
    ELSE (IF IsValidUpdate(Head(objs)) THEN <<Head(objs).d.targets>> ELSE <<>>)
             \o ValidSnapshots(Tail(objs))

\* C4: a targets_update that lacks the targets field or has a record missing
\* a field, wherever the record sits, is rejected whole: the UI callback gets
\* the snapshots of the valid updates of the pass and nothing else, and a pass
\* with a rejected update and no valid one leaves registry and subscription
\* table as they were.
C4_BatchRejected ==
    [][/\ cbLog' = ValidSnapshots(dispatched')
       /\ ((\E k \in 1..Len(dispatched') : IsRejectedUpdate(dispatched'[k]))
            /\ ValidSnapshots(dispatched') = <<>>) =>
              /\ cbLog' = <<>>
              /\ targets' = targets
              /\ ros_subs' = ros_subs]_vars

\* C4 witness: a batch of two records, the second one incomplete, was
\* dispatched and the callback was not invoked
C4_Witness ==
    \E k \in 1..Len(dispatched) :
        /\ IsRejectedUpdate(dispatched[k])
        /\ "targets" \in DOMAIN dispatched[k].d
        /\ Len(dispatched[k].d.targets) = 2
        /\ TargetFields \subseteq DOMAIN dispatched[k].d.targets[1]
        /\ cbLog = <<>>

\* A decoded value without a type field
HasNoType(v) == v.kind = "scalar" \/ (v.kind = "dict" /\ "type" \notin DOMAIN v.d)

\* C7: a line that decodes to a value without a type field is discarded on its
\* own: the connection stays up and the reader goes on with its loop.
C7_BadLineDiscarded ==
    (\E k \in 1..Len(dispatched) : HasNoType(dispatched[k])) =>
        /\ is_connected
        /\ \A i \in Threads : rpc[i] # "except"

\* The reader threads that have started and not ended
LiveReaders == {i \in Threads : rpc[i] \notin {"none", "done"}}

\* C8: after disconnect() followed by a successful connect(), only the new
\* session's reader takes the connection down or reads from its port, and no
\* subscription or registry entry is left from the session before.
C8_FreshSession ==
    (calls = <<"disconnect", "connect_ok">> /\ cpc = "idle") =>
        /\ downBy \in {None, read_serial_thread}
        /\ lastRead.port = serial => lastRead.thread = read_serial_thread
        /\ DOMAIN ros_subs = {}
        /\ targets = <<>>

\* C9: while disconnect() waits for the reader thread the connection flag is
\* already down, and while it waits for the spin thread the running flag is.
C9_SignalBeforeWait ==
    /\ cpc = "join_reader" => ~is_connected
    /\ cpc = "join_ros" => ~is_ros_running

\* C10: when disconnect() has returned the manager is disconnected, holds no
\* port, the port it held is closed, the node is destroyed and the
\* subscription table is empty.
C10_DisconnectedAtReturn ==
    (cpc = "idle" /\ calls[2] = "disconnect") =>
        /\ ~is_connected
        /\ serial = None
        /\ nSerial \notin openPorts
        /\ read_serial_thread = None
        /\ ros_node = None
        /\ liveNodes = {}
        /\ ~is_ros_running
        /\ DOMAIN ros_subs = {}

\* C10 witness: disconnect() has returned after a connect() that opened a port
\* and started the node, with the reader thread it left still alive
C10_Witness ==
    /\ cpc = "idle"
    /\ calls = <<"connect_ok", "disconnect">>
    /\ nNodes > 0
    /\ LiveReaders # {}

\* Any sequence of connect() and disconnect() calls in which the port opens and
\* ROS starts, with the bus delivering one kind of request to the override
\* callback on every spin thread, a write taking two steps.
PumpRequests ==
    {r \in Requests : r.channels = Chan(1) /\ r.duration = 100 /\ ~r.bypass_safety}

PumpOverride(j) ==
    \/ \E req \in PumpRequests : ov_receive(j, req)
    \/ ov_send_check(j)
    \/ ov_write_begin(j)
    \/ \E ok \in BOOLEAN : ov_write_end(j, ok)

PumpNext ==
    \/ connect(TRUE, "ok")
    \/ disconnect_begin
    \/ join_reader_end
    \/ disconnect_close
    \/ join_ros_end
    \/ stop_ros
    \/ \E i \in Threads : Reader(i)
    \/ \E j \in Threads : Spin(j)
    \/ \E j \in Threads : PumpOverride(j)

SpecPump == Init /\ [][PumpNext]_vars

\* the spin threads that are inside serial.write
Writers == {j \in Threads : spc[j] = "writing"}

FrameBodies ==
    {b \in SeqsUpTo(ByteAlphabet \ {"NL"}, MaxBuf + 1) :
        /\ decode(b).ok
        /\ Len(decode(b).text) <= MaxBuf
        /\ JsonLoads(Strip(decode(b).text)).kind = "dict"}

FrameLines == {b \o <<"NL">> : b \in FrameBodies}

InitFrame ==
    /\ serial = None
    /\ is_connected = FALSE
    /\ read_serial_thread = None
    /\ targets = <<>>
    /\ ros_node = None
    /\ ros_thread = None
    /\ ros_subs = NoSubs
    /\ is_ros_running = FALSE
    /\ openPorts = {}
    /\ nSerial = 0
    /\ rclpy_ok = FALSE
    /\ liveNodes = {}
    /\ nNodes = 0
    /\ nSubs = 0
    /\ subCalls = NoCalls
    /\ wire \in {[line |-> l, pos |-> 0] : l \in FrameLines}
    /\ cpc = "idle"
    /\ rpc = [i \in Threads |-> "none"]
    /\ buffer = [i \in Threads |-> <<>>]
    /\ spc = [j \in Threads |-> "none"]
    /\ ovl = [j \in Threads |-> NoOv]
    /\ calls = <<"none", "none">>
    /\ downBy = None
    /\ lastRead = [thread |-> 0, port |-> 0]
    /\ dispatched = <<>>
    /\ cbLog = <<>>
    /\ readFailed = {}

FrameNext ==
    \/ nSerial = 0 /\ connect(TRUE, "ok")
    \/ reader_start(1)
    \/ reader_loop(1)
    \/ reader_idle(1)
    \/ reader_except(1)
    \/ \E k \in 1..(MaxBuf + 2) : reader_take(1, k)

SpecFrame == InitFrame /\ [][FrameNext]_vars

\* what the reader does with the line `wire` delivered in one piece
Whole ==
    ProcessLines(Lines(decode(wire.line).text),
                 [targets |-> targets, cb |-> <<>>, disp |-> <<>>, raised |-> FALSE])

\* C18: however the port cuts the bytes of a complete line into reads, no
\* read before the last one hands anything on, the read that brings the last
\* byte hands on what the line read in one piece hands on and leaves the
\* buffer empty, and every one of the reads leaves the connection up.
C18_CutsAgree ==
    [][wire' # wire =>
          LET last == wire'.pos = Len(wire.line)
          IN /\ rpc'[1] = "loop"
             /\ is_connected'
             /\ dispatched' = IF last THEN Whole.disp ELSE <<>>
             /\ cbLog' = IF last THEN Whole.cb ELSE <<>>
             /\ last => buffer'[1] = <<>>]_vars

\* ---------------------------------------------- subscription reconciliation
\* __update_ros_subs as a function of the registry and the table. Its one call
\* site is line 142 of __start_ros, with the node created and __is_ros_running
\* set; the registries and tables are drawn from bounded sets.
SubIds == 1..MaxSubId

Registries ==
    {<<>>} \cup
    UNION {[1..k -> {[f \in TargetFields |-> id] : id \in SubIds}] : k \in 1..MaxReg}

\* a table in which the subscription of id t is object t on t's topic
TableOf(ids) == [t \in ids |-> [obj |-> t, topic |-> Topic(t)]]

InitSubs ==
    /\ serial = 1
    /\ is_connected = TRUE
    /\ read_serial_thread = 1
    /\ targets \in Registries
    /\ ros_node = 1
    /\ ros_thread = 1
    /\ ros_subs \in {TableOf(ids) : ids \in SUBSET SubIds}
    /\ is_ros_running = TRUE
    /\ openPorts = {1}
    /\ nSerial = 1
    /\ rclpy_ok = TRUE
    /\ liveNodes = {1}
    /\ nNodes = 1
    /\ nSubs = MaxSubId
    /\ subCalls = NoCalls
    /\ wire = NoWire
    /\ cpc = "update_ros_subs"
    /\ rpc = [i \in Threads |-> IF i = 1 THEN "start" ELSE "none"]
    /\ buffer = [i \in Threads |-> <<>>]
    /\ spc = [j \in Threads |-> IF j = 1 THEN "loop" ELSE "none"]
    /\ ovl = [j \in Threads |-> NoOv]
    /\ calls = <<"none", "none">>
    /\ downBy = None
    /\ lastRead = [thread |-> 0, port |-> 0]
    /\ dispatched = <<>>
    /\ cbLog = <<>>
    /\ readFailed = {}

\* one call of __update_ros_subs
reconcile ==
    /\ cpc = "update_ros_subs"
    /\ LET u == update_ros_subs(targets, ros_subs, nSubs, is_ros_running, ros_node)
       IN /\ ros_subs' = u.subs
          /\ nSubs' = u.n
          /\ subCalls' = u.calls
    /\ calls' = Push("update_ros_subs")
    /\ UNCHANGED <<serial, is_connected, read_serial_thread, targets, ros_node,
                   ros_thread, is_ros_running, openPorts, nSerial, rclpy_ok,
                   liveNodes, nNodes, wire, thrVars, downBy, lastRead,
                   dispatched, cbLog, readFailed>>

SpecSubs == InitSubs /\ [][reconcile]_vars

\* C13: one reconciliation destroys exactly the subscriptions of the ids that
\* are not in the registry, creates exactly one subscription, on the id's
\* topic, for each registry id that had none, and keeps the subscription
\* object of every other id; a reconciliation that follows another one with
\* the same registry destroys and creates nothing.
C13_ReconcileExact ==
    [][calls' # calls =>
          LET ids == RegistryIds(targets)
              old == DOMAIN ros_subs
          IN /\ DOMAIN ros_subs' = ids
             /\ \A t \in ids \cap old : ros_subs'[t] = ros_subs[t]
             /\ subCalls'.destroyed = {ros_subs[t] : t \in old \ ids}
             /\ subCalls'.created = {ros_subs'[t] : t \in ids \ old}
             /\ \A t \in ids \ old :
                    /\ ros_subs'[t].topic = Topic(t)
                    /\ ros_subs'[t].obj > nSubs
                    /\ \A u \in ids \ {t} : ros_subs'[u].obj # ros_subs'[t].obj
             /\ nSubs' = nSubs + Cardinality(ids \ old)
             /\ calls[2] = "update_ros_subs" =>
                    /\ subCalls' = NoCalls
                    /\ ros_subs' = ros_subs
                    /\ nSubs' = nSubs]_vars

\* the table for ids {1,2} was reconciled with a registry of ids {2,3}
C13_Witness ==
    /\ calls = <<"none", "update_ros_subs">>
    /\ RegistryIds(targets) = {2, 3}
    /\ subCalls.destroyed = {TableOf({1})[1]}
    /\ subCalls.created = {[obj |-> MaxSubId + 1, topic |-> Topic(3)]}
    /\ ros_subs[2] = TableOf({2})[2]
    /\ ros_subs[3] \in subCalls.created

\* A step in which a connect() call returns False
ConnectFails ==
    /\ cpc = "idle" /\ cpc' = "idle"
    /\ calls'[2] = "connect_fail"
    /\ calls' # calls \/ nSerial' # nSerial

\* C11: a connect() that returns failure leaves the manager as it was before
\* the call: connection flag, port held, open ports, thread handles and
\* threads are unchanged.
C11_FailedConnectNoEffect ==
    [][ConnectFails =>
          /\ UNCHANGED <<mgrVars, openPorts>>
          /\ rpc' = rpc
          /\ spc' = spc]_vars

\* A step in which a connect() call returns True
ConnectSucceeds ==
    /\ cpc = "idle" /\ cpc' = "idle"
    /\ calls'[2] = "connect_ok"
    /\ nSerial' # nSerial

\* C12: when connect() returns success the manager is connected, the reader
\* thread has been started, and the ROS integration is running with its spin
\* thread started.
C12_SuccessMeansAllStarted ==
    [][ConnectSucceeds =>
          /\ is_connected'
          /\ read_serial_thread' # None
          /\ rpc'[read_serial_thread'] # "none"
          /\ is_ros_running'
          /\ ros_node' # None
          /\ ros_thread' # None
          /\ spc'[ros_thread'] # "none"]_vars

\* C15: the handler of a failed port read leaves the manager disconnected,
\* and a reader thread whose read failed makes no further pass of its loop:
\* its next loop test ends it.
C15_ReadFailureEndsReader ==
    [][\A i \in Threads :
          /\ (rpc[i] = "except" /\ rpc'[i] # "except") => ~is_connected'
          /\ (i \in readFailed /\ rpc[i] = "loop" /\ rpc'[i] # "loop")
                => rpc'[i] = "done"]_vars

\* A step in which spin thread j's write at line 227 fails: the port refuses
\* the bytes, or self.__serial is None or closed
WriteFails(j) ==
    /\ spc[j] \in {"ov227", "writing"}
    /\ ovl'[j].result \in {"write_failed", "raised"}

\* C16: a failed write is absorbed: the callback returns to the spin loop, the
\* command is not handed to a port again, and the connection flag, the port
\* held, the registry and the subscription table are as before the write.
C16_WriteFailureAbsorbed ==
    [][\A j \in Threads :
          WriteFails(j) =>
             /\ spc'[j] = "loop"
             /\ \A k \in 1..Len(ovl'[j].sent) : ~ovl'[j].sent[k].ok
             /\ UNCHANGED <<is_connected, serial, openPorts, targets, ros_subs>>]_vars

\* the port refused a command while connected, and the manager is still connected
C16_Witness ==
    /\ is_connected
    /\ spc[1] = "loop"
    /\ ovl[1].result = "write_failed"
    /\ Len(ovl[1].sent) = 1
    /\ ~ovl[1].sent[1].ok

\* the manager as __init__ and disconnect() leave it
Disconnected ==
    /\ ~is_connected
    /\ serial = None
    /\ read_serial_thread = None
    /\ ros_node = None
    /\ ros_thread = None
    /\ ~is_ros_running

\* a step of the caller inside disconnect()
DisconnectStep == cpc' # cpc \/ (cpc # "idle" /\ calls' # calls)

\* C17: every step of a disconnect() made on a disconnected manager leaves the
\* manager disconnected with no port, no thread handle and no node, changes
\* no field and no library object, starts no thread, and does not raise.
C17_DisconnectIdempotent ==
    [][(Disconnected /\ DisconnectStep) =>
          /\ Disconnected'
          /\ UNCHANGED <<mgrVars, openPorts, liveNodes, rclpy_ok, rpc, spc>>
          /\ calls'[2] # "disconnect_raised"]_vars

\* two calls of disconnect() in a row have returned after a session
C17_Witness ==
    /\ cpc = "idle"
    /\ calls = <<"disconnect", "disconnect">>
    /\ nSerial > 0
    /\ Disconnected

\* A step in which spin thread j hands a command to a port
Writes(j) == Len(ovl'[j].sent) > Len(ovl[j].sent)

\* A step in which spin thread j's callback takes a request
Receives(j) == spc[j] = "spin" /\ ovl'[j].req # NoReq

ReadingReaders == {i \in Threads : rpc[i] \in {"loop", "body", "except"}}
LiveSpins == {j \in Threads : spc[j] \notin {"none", "done"}}

\* C20: at any time at most one reader thread is in its read loop and at most
\* one spin thread is alive.
C20_OneReaderOnePump ==
    /\ Cardinality(ReadingReaders) <= 1
    /\ Cardinality(LiveSpins) <= 1

====
